---- MODULE Spec2Model ----
(***************************************************************************)
(* Model of the cadastral lookup service: the geocoding service with its   *)
(* primary (Google) and fallback (Nominatim) providers, the cadastral      *)
(* matcher over the in-memory parcel table, and the composed full lookup   *)
(* of the REST controller.                                                 *)
(*                                                                         *)
(* Text is modelled as a sequence of one-character strings, so that        *)
(* lower-casing, substring replacement and substring search are computed.  *)
(* Coordinates are integers in units of 0.01 degree.  Time is a global     *)
(* clock counted in seconds.                                               *)
(***************************************************************************)
EXTENDS Integers, Sequences, FiniteSets, TLC

(***************************************************************************)
(* Bounds of the model.                                                    *)
(***************************************************************************)
MaxRecords == 2
MaxCalls == 2
MaxTime == 2
MaxResults == 2
\* longest text enumerated over NormalizerChars
MaxLen == 3
\* scores enumerated run from -MaxScore to MaxScore
MaxScore == 100

Threads == {1, 2}

(***************************************************************************)
(* Text helpers (Python str / re semantics on character sequences).        *)
(***************************************************************************)
UpperLetters ==
  <<"A","B","C","D","E","F","G","H","I","J","K","L","M",
    "N","O","P","Q","R","S","T","U","V","W","X","Y","Z","Ú">>

LowerLetters ==
  <<"a","b","c","d","e","f","g","h","i","j","k","l","m",
    "n","o","p","q","r","s","t","u","v","w","x","y","z","ú">>

Whitespace == {" ", "\t", "\n"}

\* str.lower() on one character
LowerChar(c) ==
  IF \E i \in DOMAIN UpperLetters : UpperLetters[i] = c
  THEN LowerLetters[CHOOSE i \in DOMAIN UpperLetters : UpperLetters[i] = c]
  ELSE c

\* mutant of Lower: letter case is kept
Lower_KeepCase(s) == s

\* str.lower()
Lower(s) == [i \in 1..Len(s) |-> LowerChar(s[i])]

\* re.sub(r'\s+', ' ', s): every maximal run of whitespace becomes one space
RECURSIVE CollapseWs(_)
CollapseWs(s) ==
  IF s = <<>> THEN <<>>
  ELSE IF Head(s) \in Whitespace
       THEN IF Len(s) > 1 /\ s[2] \in Whitespace
            THEN CollapseWs(Tail(s))
            ELSE <<" ">> \o CollapseWs(Tail(s))
       ELSE <<Head(s)>> \o CollapseWs(Tail(s))

\* str.strip()
RECURSIVE Strip(_)
Strip(s) ==
  IF s = <<>> THEN <<>>
  ELSE IF Head(s) \in Whitespace THEN Strip(Tail(s))
  ELSE IF s[Len(s)] \in Whitespace THEN Strip(SubSeq(s, 1, Len(s) - 1))
  ELSE s

\* str.replace(old, new) for a non-empty old: leftmost, non-overlapping
RECURSIVE Replace(_, _, _)
Replace(s, old, new) ==
  IF Len(s) < Len(old) THEN s
  ELSE IF SubSeq(s, 1, Len(old)) = old
       THEN new \o Replace(SubSeq(s, Len(old) + 1, Len(s)), old, new)
       ELSE <<Head(s)>> \o Replace(Tail(s), old, new)

\* the replacement table of _normalize_address, in insertion order; the
\* key written 'no\.' in the source is the four characters n o \ .
replacements ==
  << << <<"c","a","l","l","e">>, <<"c","l">> >>,
     << <<"c","a","r","r","e","r","a">>, <<"k","r">> >>,
     << <<"a","v","e","n","i","d","a">>, <<"a","v">> >>,
     << <<"d","i","a","g","o","n","a","l">>, <<"d","g">> >>,
     << <<"t","r","a","n","s","v","e","r","s","a","l">>, <<"t","v">> >>,
     << <<"s","u","r">>, <<"s">> >>,
     << <<"n","o","r","t","e">>, <<"n">> >>,
     << <<"e","s","t","e">>, <<"e">> >>,
     << <<"o","e","s","t","e">>, <<"o">> >>,
     << <<"n","o","\\",".">>, <<>> >>,
     << <<"n","u","m","e","r","o">>, <<>> >>,
     << <<"#">>, <<>> >>,
     << <<"-">>, <<" ">> >> >>

\* the loop "for old, new in replacements.items(): address = address.replace"
RECURSIVE ApplyReplacements(_, _)
ApplyReplacements(s, k) ==
  IF k > Len(replacements) THEN s
  ELSE ApplyReplacements(Replace(s, replacements[k][1], replacements[k][2]), k + 1)

\* CatastroService._normalize_address
_normalize_address(address) ==
  ApplyReplacements(Strip(CollapseWs(Lower(address))), 1)

\* mutant of Contains: the empty text is contained in nothing
Contains_NonEmpty(hay, needle) ==
  /\ needle # <<>>
  /\ \E i \in 0..(Len(hay) - Len(needle)) :
       SubSeq(hay, i + 1, i + Len(needle)) = needle

\* the "in" test of str.contains(..., regex=False)
Contains(hay, needle) ==
  \E i \in 0..(Len(hay) - Len(needle)) :
    SubSeq(hay, i + 1, i + Len(needle)) = needle

(***************************************************************************)
(* The parcel table.  predios_df is column-oriented like a DataFrame: a     *)
(* function from column name to the sequence of that column's cells.       *)
(* Areas are in tenths of a square metre; a PREPUNTAJE cell is a number or *)
(* NaN (an empty CSV cell).                                                *)
(***************************************************************************)
Num(v) == [nan |-> FALSE, val |-> v]
NaN == [nan |-> TRUE, val |-> 0]

Columns == {"PRECHIP", "PREDIRECC", "PREATERRE", "PREACONST", "PREPUNTAJE"}

RecordPool ==
  { [PRECHIP |-> "AAA1", PREDIRECC |-> <<"C","L"," ","1">>,
     PREATERRE |-> 1080, PREACONST |-> 1759, PREPUNTAJE |-> Num(50)],
    [PRECHIP |-> "AAA2", PREDIRECC |-> <<"C","a","l","l","e"," ","1">>,
     PREATERRE |-> 1080, PREACONST |-> 1759, PREPUNTAJE |-> Num(29)],
    [PRECHIP |-> "AAA3", PREDIRECC |-> <<"C","L"," ","1","2">>,
     PREATERRE |-> 600, PREACONST |-> 0, PREPUNTAJE |-> NaN] }

\* the queries a caller sends: "CALLE 1", "cl", "AV 9", "#"
QueryPool ==
  { <<"C","A","L","L","E"," ","1">>,
    <<"c","l">>,
    <<"A","V"," ","9">>,
    <<"#">> }

\* the addresses sent to the geocode and full-lookup endpoints, whose
\* outcome depends on the providers only: "CALLE 1", "AV 9"
AddressPool ==
  { <<"C","A","L","L","E"," ","1">>,
    <<"A","V"," ","9">> }

CoordPool == { [lat |-> 461, lng |-> -7408], [lat |-> 473, lng |-> -7403] }

\* the radius used when the caller gives none, in metres
DefaultRadius == 500

RadiusPool == {100, DefaultRadius}

SeqsUpTo(S, n) == UNION { [1..k -> S] : k \in 0..n }

\* what the data path holds: nothing readable, or a CSV with these rows
DataSources ==
  { [readable |-> FALSE, rows |-> <<>>] } \cup
  { [readable |-> TRUE, rows |-> rs] : rs \in SeqsUpTo(RecordPool, MaxRecords) }

\* pd.DataFrame(): no columns, no rows
EmptyFrame == <<>>

\* pd.read_csv of a readable file
read_csv(rows) == [c \in Columns |-> [i \in 1..Len(rows) |-> rows[i][c]]]

\* CatastroService.load_data: a failed read leaves an empty DataFrame
load_data(source) ==
  IF source.readable THEN read_csv(source.rows) ELSE EmptyFrame

None == [isNone |-> TRUE]

\* len(df)
NumRows(df) ==
  IF DOMAIN df = {} THEN 0 ELSE Len(df[CHOOSE c \in DOMAIN df : TRUE])

\* DataFrame.empty
IsEmptyFrame(df) == DOMAIN df = {} \/ NumRows(df) = 0

\* mutant of NoData: an empty table passes for loaded data
NoData_OnlyNone(df) == df = None

\* "self.predios_df is None or self.predios_df.empty"
NoData(df) == df = None \/ IsEmptyFrame(df)

\* df.iloc[i] as a record of the row's cells
Row(df, i) == [c \in DOMAIN df |-> df[c][i]]

(***************************************************************************)
(* Formatting of a parcel record and its derived attributes.               *)
(***************************************************************************)
\* CatastroService._determinar_estrato, for a numeric score
\* mutant of _determinar_estrato: the thresholds belong to the lower stratum
_determinar_estrato_Inclusive(puntaje) ==
  IF puntaje <= 30 THEN 1
  ELSE IF puntaje <= 45 THEN 2
  ELSE IF puntaje <= 60 THEN 3
  ELSE IF puntaje <= 75 THEN 4
  ELSE IF puntaje <= 90 THEN 5
  ELSE 6

_determinar_estrato(puntaje) ==
  IF puntaje < 30 THEN 1
  ELSE IF puntaje < 45 THEN 2
  ELSE IF puntaje < 60 THEN 3
  ELSE IF puntaje < 75 THEN 4
  ELSE IF puntaje < 90 THEN 5
  ELSE 6

\* CatastroService._calcular_valor_catastral: with areas in tenths of m2,
\* (a/10) * (p * 50000) * 0.3 + (c/10) * (p * 50000) * 0.7
\* mutant of _calcular_valor_catastral: the two weights exchanged
_calcular_valor_catastral_Swapped(area_terreno, area_construida, puntaje) ==
  area_terreno * puntaje * 3500 + area_construida * puntaje * 1500

\* The sum is a whole number of pesos for areas given to 0.1 m2, so the
\* final round(..., 2) leaves it as it is.
_calcular_valor_catastral(area_terreno, area_construida, puntaje) ==
  area_terreno * puntaje * 1500 + area_construida * puntaje * 3500

\* int(predio.get('PREPUNTAJE', 0)) raises ValueError on NaN
IntRaises(cell) == cell.nan

\* CatastroService._format_predio_info: any exception of the body becomes
\* a {success: False} result.  Of the returned fields the identifier, the
\* stored address, the areas and the two derived attributes are carried.
_format_predio_info(predio) ==
  IF IntRaises(predio.PREPUNTAJE)
  THEN [success |-> FALSE, error |-> "Error al formatear informacion del predio"]
  ELSE [success |-> TRUE,
        predio |-> [chip |-> predio.PRECHIP,
                    direccion |-> predio.PREDIRECC,
                    area_terreno |-> predio.PREATERRE,
                    area_construida |-> predio.PREACONST,
                    estrato |-> _determinar_estrato(predio.PREPUNTAJE.val),
                    valor_catastral |->
                      _calcular_valor_catastral(predio.PREATERRE,
                                                predio.PREACONST,
                                                predio.PREPUNTAJE.val)]]

NoDataResult == [success |-> FALSE, error |-> "No hay datos catastrales cargados"]

NoGeocodeResult ==
  [success |-> FALSE, error |-> "No se pudo geocodificar la direccion proporcionada"]

(***************************************************************************)
(* Address matching of find_predio_by_address.                             *)
(***************************************************************************)
\* predios_df['PREDIRECC'].apply(self._normalize_address)
NormalizedColumn(df) ==
  [i \in 1..NumRows(df) |-> _normalize_address(df["PREDIRECC"][i])]

\* mutant of AssignNormalized: the normalized addresses also replace the
\* stored addresses
AssignNormalized_Overwrite(df) ==
  [c \in (DOMAIN df) \cup {"normalized_address"} |->
     IF c \in {"normalized_address", "PREDIRECC"}
     THEN NormalizedColumn(df) ELSE df[c]]

\* predios_df['normalized_address'] = ...: the column is added to (or
\* overwritten in) the shared frame
AssignNormalized(df) ==
  [c \in (DOMAIN df) \cup {"normalized_address"} |->
     IF c = "normalized_address" THEN NormalizedColumn(df) ELSE df[c]]

Indices(df) == [i \in 1..NumRows(df) |-> i]

\* positions, in dataset order, of df[df['normalized_address'] == q]
exact_matches(df, q) ==
  SelectSeq(Indices(df), LAMBDA i : df["normalized_address"][i] = q)

\* positions, in dataset order, of df[df[...].str.contains(q, regex=False)]
partial_matches(df, q) ==
  SelectSeq(Indices(df), LAMBDA i : Contains(df["normalized_address"][i], q))

\* mutant of iloc0: the last matching row instead of the first
iloc0_Last(matches) == matches[Len(matches)]

\* matches.iloc[0]
iloc0(matches) == matches[1]

\* mutant of MatchTier: the substring test is tried before the equality test
MatchTier_PartialFirst(df, q) ==
  IF partial_matches(df, q) # <<>>
  THEN [tier |-> "partial", index |-> iloc0(partial_matches(df, q))]
  ELSE IF exact_matches(df, q) # <<>>
       THEN [tier |-> "exact", index |-> iloc0(exact_matches(df, q))]
       ELSE [tier |-> "geocoding", index |-> 0]

\* the tier that answers and the position selected (0: none selected)
MatchTier(df, q) ==
  IF exact_matches(df, q) # <<>>
  THEN [tier |-> "exact", index |-> iloc0(exact_matches(df, q))]
  ELSE IF partial_matches(df, q) # <<>>
       THEN [tier |-> "partial", index |-> iloc0(partial_matches(df, q))]
       ELSE [tier |-> "geocoding", index |-> 0]

(***************************************************************************)
(* Geocoding: provider responses and the canonical response.               *)
(***************************************************************************)
\* Nominatim results as the provider returns them
NominatimPool ==
  { [lat |-> 461, lon |-> -7408, display_name |-> "Calle 147, Bogota",
     place_id |-> "n1", class |-> "highway",
     address |-> << <<"road", "Calle 147">>, <<"city", "Bogota">> >>],
    [lat |-> 473, lon |-> -7403, display_name |-> "Avenida 9, Bogota",
     place_id |-> "n2", class |-> "place",
     address |-> <<>>] }

\* result lists of at most MaxResults places, no place listed twice
NominatimLists ==
  { rs \in SeqsUpTo(NominatimPool, MaxResults) :
      \A i, j \in 1..Len(rs) : i # j => rs[i] # rs[j] }

\* what a Nominatim request can end in
NominatimOutcomes ==
  { [kind |-> "transport_error"], [kind |-> "invalid_json"] } \cup
  { [kind |-> "list", body |-> rs] : rs \in NominatimLists }

GoogleResult ==
  [formatted_address |-> "Cl. 147, Bogota",
   geometry |-> [location |-> [lat |-> 470, lng |-> -7405],
                 location_type |-> "ROOFTOP",
                 viewport |-> [northeast |-> [lat |-> 471, lng |-> -7404],
                               southwest |-> [lat |-> 469, lng |-> -7406]]],
   place_id |-> "g1",
   types |-> <<"street_address">>,
   address_components |->
     << [long_name |-> "Bogota", short_name |-> "Bogota",
         types |-> <<"locality", "political">>] >>]

\* what a Google request can end in
GoogleOutcomes ==
  { [kind |-> "transport_error"], [kind |-> "invalid_json"],
    [kind |-> "json", body |-> [status |-> "OK", results |-> <<GoogleResult>>]],
    [kind |-> "json", body |-> [status |-> "OK", results |-> <<>>]],
    [kind |-> "json", body |-> [status |-> "REQUEST_DENIED", results |-> <<>>]],
    [kind |-> "json", body |-> [error_message |-> "denied"]] }

\* dict.get("status")
GetStatus(body) == IF "status" \in DOMAIN body THEN body.status ELSE "None"

\* dict.get("results"), falsy when absent
GetResults(body) == IF "results" \in DOMAIN body THEN body.results ELSE <<>>

\* one Nominatim result in the canonical shape
\* result.get-style read of the optional "address" mapping, as key/value
\* pairs in insertion order
GetAddress(result) ==
  IF "address" \in DOMAIN result THEN result.address ELSE <<>>

\* mutant of ConvertResult: the viewport corners collapse onto the point
ConvertResult_NoMargin(result) ==
  [formatted_address |-> result.display_name,
   geometry |-> [location |-> [lat |-> result.lat, lng |-> result.lon],
                 location_type |-> "APPROXIMATE",
                 viewport |-> [northeast |-> [lat |-> result.lat,
                                              lng |-> result.lon],
                               southwest |-> [lat |-> result.lat,
                                              lng |-> result.lon]]],
   place_id |-> result.place_id,
   types |-> <<result.class>>,
   address_components |->
     [k \in 1..Len(GetAddress(result)) |->
        [long_name |-> GetAddress(result)[k][2],
         short_name |-> GetAddress(result)[k][2],
         types |-> <<GetAddress(result)[k][1]>>]]]

\* one Nominatim result in the canonical shape; coordinates are in units of
\* 0.01 degrees, so the viewport margin of 0.01 degrees is 1
ConvertResult(result) ==
  [formatted_address |-> result.display_name,
   geometry |-> [location |-> [lat |-> result.lat, lng |-> result.lon],
                 location_type |-> "APPROXIMATE",
                 viewport |-> [northeast |-> [lat |-> result.lat + 1,
                                              lng |-> result.lon + 1],
                               southwest |-> [lat |-> result.lat - 1,
                                              lng |-> result.lon - 1]]],
   place_id |-> result.place_id,
   types |-> <<result.class>>,
   address_components |->
     [k \in 1..Len(GetAddress(result)) |->
        [long_name |-> GetAddress(result)[k][2],
         short_name |-> GetAddress(result)[k][2],
         types |-> <<GetAddress(result)[k][1]>>]]]

\* GeocodingService._convert_nominatim_to_google_format
_convert_nominatim_to_google_format(nominatim_results) ==
  IF nominatim_results = <<>>
  THEN [status |-> "ZERO_RESULTS", results |-> <<>>]
  ELSE [status |-> "OK",
        results |-> [i \in 1..Len(nominatim_results) |->
                       ConvertResult(nominatim_results[i])]]

\* the address_components dict built by extract_location_data: for each
\* type the long_name of the last component carrying it
ComponentDict(components) ==
  LET types == UNION { { components[k].types[j] :
                           j \in 1..Len(components[k].types) } :
                       k \in 1..Len(components) }
      Has(k, ty) == \E j \in 1..Len(components[k].types) :
                      components[k].types[j] = ty
      Last(ty) == CHOOSE k \in 1..Len(components) :
                    /\ Has(k, ty)
                    /\ \A m \in 1..Len(components) : Has(m, ty) => m <= k
  IN [ty \in types |-> components[Last(ty)].long_name]

NoLocationResult ==
  [success |-> FALSE,
   error |-> "No se encontraron resultados para la direccion proporcionada"]

\* mutant of extract_location_data: reads the last result of the list
extract_location_data_Last(geocode_result) ==
  IF GetStatus(geocode_result) # "OK" \/ GetResults(geocode_result) = <<>>
  THEN NoLocationResult
  ELSE LET result == geocode_result.results[Len(geocode_result.results)]
       IN [success |-> TRUE,
           coordinates |-> [lat |-> result.geometry.location.lat,
                            lng |-> result.geometry.location.lng],
           formatted_address |-> result.formatted_address,
           address_components |-> ComponentDict(result.address_components)]

\* GeocodingService.extract_location_data
extract_location_data(geocode_result) ==
  IF GetStatus(geocode_result) # "OK" \/ GetResults(geocode_result) = <<>>
  THEN NoLocationResult
  ELSE LET result == geocode_result.results[1]
       IN [success |-> TRUE,
           coordinates |-> [lat |-> result.geometry.location.lat,
                            lng |-> result.geometry.location.lng],
           formatted_address |-> result.formatted_address,
           address_components |-> ComponentDict(result.address_components)]

\* mutant of UseGoogle: the primary is used whether or not a key is set
UseGoogle_Always(google_api_key) == TRUE

\* GeocodingService.__init__: use_google
UseGoogle(google_api_key) == google_api_key # "None"

\* mutant of GoogleAccepted: any parsed answer of the primary is returned
GoogleAccepted_AnyJson(outcome) == outcome.kind = "json"

\* line 49: the primary's answer is returned only when its status is "OK";
\* a raised exception or any other status falls through to the fallback
GoogleAccepted(outcome) ==
  outcome.kind = "json" /\ GetStatus(outcome.body) = "OK"

\* mutant of GeocodeUnusable: the result list is not looked at
GeocodeUnusable_StatusOnly(geocode_result) == GetStatus(geocode_result) # "OK"

\* find_predio_by_geocoding, line 138
GeocodeUnusable(geocode_result) ==
  GetStatus(geocode_result) # "OK" \/ GetResults(geocode_result) = <<>>

(***************************************************************************)
(* Points of interest: the fixed list of find_nearby_pois, distances in    *)
(* tenths of a metre.                                                      *)
(***************************************************************************)
StaticPois ==
  << [tipo |-> "Colegio", nombre |-> "Colegio Distrital", distancia |-> 1205],
     [tipo |-> "Parque", nombre |-> "Parque Vecinal", distancia |-> 2003],
     [tipo |-> "Transporte", nombre |-> "Estacion Transmilenio", distancia |-> 3508],
     [tipo |-> "Comercio", nombre |-> "Centro Comercial", distancia |-> 4502] >>

\* CatastroService.find_nearby_pois
find_nearby_pois(lat, lon, radius) == [success |-> TRUE, pois |-> StaticPois]

\* CatastroService.find_nearest_predio; pick is the position drawn by
\* predios_df.sample(1)
find_nearest_predio(df, pick) ==
  IF NoData(df) THEN NoDataResult ELSE _format_predio_info(Row(df, pick))

\* the positions sample(1) can draw (0 stands for "nothing drawn")
SamplePicks(df) == IF NoData(df) THEN {0} ELSE 1..NumRows(df)

(***************************************************************************)
(* State.                                                                  *)
(***************************************************************************)
VARIABLES
  google_api_key,   \* app.config['GOOGLE_MAPS_API_KEY']: "None" or a key
  use_google,       \* use_google of each GeocodingService instance
  predios_df,       \* CatastroService.predios_df, shared by all requests
  now,              \* wall clock, seconds
  nominatim_window, \* send times of the Nominatim requests of the last second
  calls,            \* requests accepted so far
  th,               \* per request thread: position and locals
  fn                \* a helper function applied on its own: name, argument, value

vars == <<google_api_key, use_google, predios_df, now, nominatim_window, calls, th, fn>>

\* the two GeocodingService instances init_services creates
Services == {"geocoder", "catastro_service.geocoder"}

SleepSeconds == 1

\* "limite de 1 solicitud por segundo": the interval the limit is about
PacingSeconds == 1

NoCoords == [lat |-> 0, lng |-> 0]

IdleFrame ==
  [pc |-> "idle", op |-> "none", address |-> <<>>, coords |-> NoCoords,
   service |-> "none", trace |-> <<>>,
   google |-> None, nominatim |-> None, sleptAt |-> 0, sentAt |-> 0,
   geocode_result |-> None, location |-> None,
   tier |-> "none", selected |-> 0,
   nearest_args |-> None, predio_result |-> None, pois_result |-> None,
   result |-> None, raised |-> FALSE]

\* no helper function is being applied on its own
NoCall == [pc |-> "none", name |-> "none", arg |-> None, value |-> None]

Init ==
  /\ fn = NoCall
  /\ google_api_key \in {"None", "key"}
  /\ use_google = [s \in Services |-> UseGoogle(google_api_key)]
  /\ \E source \in DataSources : predios_df = load_data(source)
  /\ now = 0
  /\ nominatim_window = <<>>
  /\ calls = 0
  /\ th = [t \in Threads |-> IdleFrame]

\* time.sleep(1) returns once a full second has passed
SleepElapsed(f, clock) == clock >= f.sleptAt + SleepSeconds

(***************************************************************************)
(* GeocodingService.geocode_address, up to its first outbound request.     *)
(***************************************************************************)
\* line 46: with a key the primary is tried, else _geocode_nominatim starts
\* and blocks in time.sleep(1)
EnterGeocode(f, service, clock) ==
  IF use_google[service]
  THEN [f EXCEPT !.pc = "google", !.service = service]
  ELSE [f EXCEPT !.pc = "sleep", !.service = service,
                 !.sleptAt = clock,
                 !.trace = Append(@, "sleep")]

(***************************************************************************)
(* What each operation does once geocode_address has returned gr.          *)
(***************************************************************************)
\* controller geocode_address, lines 90-95
AfterGeocodeEndpoint(f, gr) ==
  [f EXCEPT !.pc = "done", !.geocode_result = gr,
            !.location = extract_location_data(gr),
            !.trace = Append(@, "extract"),
            !.result = extract_location_data(gr)]

\* CatastroService.find_predio_by_geocoding, lines 138-154
AfterGeocodeByAddress(f, gr, df, pick) ==
  IF GeocodeUnusable(gr)
  THEN [f EXCEPT !.pc = "done", !.geocode_result = gr,
                 !.result = NoGeocodeResult]
  ELSE LET location == extract_location_data(gr)
       IN IF ~location.success
          THEN [f EXCEPT !.pc = "done", !.geocode_result = gr,
                         !.location = location,
                         !.trace = Append(@, "extract"),
                         !.result = location]
          ELSE [f EXCEPT !.pc = "done", !.geocode_result = gr,
                         !.location = location,
                         !.trace = @ \o <<"extract", "find_nearest_predio">>,
                         !.nearest_args = location.coordinates,
                         !.selected = pick,
                         !.predio_result = find_nearest_predio(df, pick),
                         !.result = find_nearest_predio(df, pick)]

\* the failure consulta_completa builds when the parcel lookup fails
NoPredioResult(f, location) ==
  [success |-> FALSE,
   error |-> "No se encontro informacion catastral",
   direccion |-> [original |-> f.address,
                  formateada |-> location.formatted_address],
   coordenadas |-> location.coordinates]

\* mutant of AfterGeocodeCompleta: a failed parcel lookup does not end the
\* lookup, the points of interest are still fetched
AfterGeocodeCompleta_NoShortCircuit(f, gr, df, pick) ==
  LET location == extract_location_data(gr)
      predio_result == find_nearest_predio(df, pick)
  IN IF ~location.success
     THEN [f EXCEPT !.pc = "done", !.geocode_result = gr,
                    !.location = location,
                    !.trace = Append(@, "extract"),
                    !.result = location]
     ELSE [f EXCEPT !.pc = "done", !.geocode_result = gr,
                    !.location = location,
                    !.trace = @ \o <<"extract", "find_nearest_predio",
                                     "find_nearby_pois">>,
                    !.nearest_args = location.coordinates,
                    !.selected = pick,
                    !.predio_result = predio_result,
                    !.pois_result =
                       find_nearby_pois(location.coordinates.lat,
                                        location.coordinates.lng, 500),
                    !.result =
                       IF predio_result.success
                       THEN [success |-> TRUE,
                             direccion |->
                               [original |-> f.address,
                                formateada |-> location.formatted_address],
                             coordenadas |-> location.coordinates,
                             predio |-> predio_result.predio,
                             pois_cercanos |-> StaticPois]
                       ELSE NoPredioResult(f, location)]

\* controller consulta_completa, lines 311-347
AfterGeocodeCompleta(f, gr, df, pick) ==
  LET location == extract_location_data(gr)
      predio_result == find_nearest_predio(df, pick)
  IN IF ~location.success
     THEN [f EXCEPT !.pc = "done", !.geocode_result = gr,
                    !.location = location,
                    !.trace = Append(@, "extract"),
                    !.result = location]
     ELSE IF ~predio_result.success
          THEN [f EXCEPT !.pc = "done", !.geocode_result = gr,
                         !.location = location,
                         !.trace = @ \o <<"extract", "find_nearest_predio">>,
                         !.nearest_args = location.coordinates,
                         !.selected = pick,
                         !.predio_result = predio_result,
                         !.result = NoPredioResult(f, location)]
          ELSE [f EXCEPT !.pc = "done", !.geocode_result = gr,
                         !.location = location,
                         !.trace = @ \o <<"extract", "find_nearest_predio",
                                          "find_nearby_pois">>,
                         !.nearest_args = location.coordinates,
                         !.selected = pick,
                         !.predio_result = predio_result,
                         !.pois_result =
                            find_nearby_pois(location.coordinates.lat,
                                             location.coordinates.lng, 500),
                         !.result =
                            [success |-> TRUE,
                             direccion |->
                               [original |-> f.address,
                                formateada |-> location.formatted_address],
                             coordenadas |-> location.coordinates,
                             predio |-> predio_result.predio,
                             pois_cercanos |-> StaticPois]]

AfterGeocode(f, gr, df, pick) ==
  IF f.op = "geocode" THEN AfterGeocodeEndpoint(f, gr)
  ELSE IF f.op = "by_address" THEN AfterGeocodeByAddress(f, gr, df, pick)
  ELSE AfterGeocodeCompleta(f, gr, df, pick)

(***************************************************************************)
(* Operations.  A request runs on a thread; it is split where the code     *)
(* blocks (the Google request, time.sleep, the Nominatim request).         *)
(***************************************************************************)
CanStart(t) == th[t].pc = "idle" /\ calls < MaxCalls

\* POST /geocode: controller geocode_address
geocode_address(t, address) ==
  /\ CanStart(t)
  /\ calls' = calls + 1
  /\ th' = [th EXCEPT ![t] =
              EnterGeocode([IdleFrame EXCEPT !.op = "geocode",
                                             !.address = address],
                           "geocoder", now)]
  /\ UNCHANGED <<fn, google_api_key, use_google, predios_df, now, nominatim_window>>

\* POST /predio/direccion: CatastroService.find_predio_by_address up to the
\* geocoding fallback
find_predio_by_address(t, address) ==
  /\ CanStart(t)
  /\ calls' = calls + 1
  /\ LET f == [IdleFrame EXCEPT !.op = "by_address", !.address = address]
     IN IF NoData(predios_df)
        THEN /\ th' = [th EXCEPT ![t] =
                         [f EXCEPT !.pc = "done", !.result = NoDataResult]]
             /\ UNCHANGED predios_df
        ELSE LET q == _normalize_address(address)
                 df == AssignNormalized(predios_df)
                 m == MatchTier(df, q)
                 g == [f EXCEPT !.trace = <<"normalize">>, !.tier = m.tier,
                                !.selected = m.index]
             IN /\ predios_df' = df
                /\ th' = [th EXCEPT ![t] =
                            IF m.tier = "geocoding"
                            THEN EnterGeocode(g, "catastro_service.geocoder", now)
                            ELSE [g EXCEPT !.pc = "done",
                                           !.result =
                                             _format_predio_info(Row(df, m.index))]]
  /\ UNCHANGED <<fn, google_api_key, use_google, now, nominatim_window>>

\* POST /predio/coordenadas: CatastroService.find_nearest_predio
find_predio_by_coordinates(t, coords) ==
  /\ CanStart(t)
  /\ calls' = calls + 1
  /\ \E pick \in SamplePicks(predios_df) :
       th' = [th EXCEPT ![t] =
                [IdleFrame EXCEPT !.op = "by_coords", !.coords = coords,
                                  !.pc = "done",
                                  !.trace = <<"find_nearest_predio">>,
                                  !.nearest_args = coords,
                                  !.selected = pick,
                                  !.predio_result =
                                    find_nearest_predio(predios_df, pick),
                                  !.result =
                                    find_nearest_predio(predios_df, pick)]]
  /\ UNCHANGED <<fn, google_api_key, use_google, predios_df, now, nominatim_window>>

\* POST /pois/cercanos: CatastroService.find_nearby_pois
nearby_pois(t, coords, radius) ==
  /\ CanStart(t)
  /\ calls' = calls + 1
  /\ th' = [th EXCEPT ![t] =
              [IdleFrame EXCEPT !.op = "pois", !.coords = coords,
                                !.pc = "done",
                                !.trace = <<"find_nearby_pois">>,
                                !.pois_result =
                                  find_nearby_pois(coords.lat, coords.lng, radius),
                                !.result =
                                  find_nearby_pois(coords.lat, coords.lng, radius)]]
  /\ UNCHANGED <<fn, google_api_key, use_google, predios_df, now, nominatim_window>>

\* POST /consulta/completa: controller consulta_completa up to geocoding
consulta_completa(t, address) ==
  /\ CanStart(t)
  /\ calls' = calls + 1
  /\ th' = [th EXCEPT ![t] =
              EnterGeocode([IdleFrame EXCEPT !.op = "completa",
                                             !.address = address],
                           "geocoder", now)]
  /\ UNCHANGED <<fn, google_api_key, use_google, predios_df, now, nominatim_window>>

\* GeocodingService._geocode_google answers or raises (lines 47-52); an
\* accepted answer is returned, anything else leads to _geocode_nominatim
_geocode_google(t, outcome) ==
  /\ th[t].pc = "google"
  /\ LET f == [th[t] EXCEPT !.google = outcome, !.trace = Append(@, "google")]
     IN IF GoogleAccepted(outcome)
        THEN \E pick \in SamplePicks(predios_df) :
               th' = [th EXCEPT ![t] =
                        AfterGeocode(f, outcome.body, predios_df, pick)]
        ELSE th' = [th EXCEPT ![t] =
                      [f EXCEPT !.pc = "sleep",
                                !.sleptAt = now,
                                !.trace = Append(@, "sleep")]]
  /\ UNCHANGED <<fn, google_api_key, use_google, predios_df, now, nominatim_window, calls>>

\* _geocode_nominatim, lines 106-108: time.sleep(1) has elapsed and the
\* request is sent
_geocode_nominatim_send(t) ==
  /\ th[t].pc = "sleep"
  /\ SleepElapsed(th[t], now)
  /\ th' = [th EXCEPT ![t].pc = "nominatim", ![t].sentAt = now,
                      ![t].trace = Append(@, "nominatim")]
  /\ nominatim_window' = Append(nominatim_window, now)
  /\ UNCHANGED <<fn, google_api_key, use_google, predios_df, now, calls>>

\* _geocode_nominatim, lines 108-112: the request fails, or its body does
\* not parse, or the list is converted and returned; nothing catches the
\* exceptions, so they leave the operation.  The timestamps of the sleep
\* and of the request are locals of this call and end with it.
_geocode_nominatim_receive(t, outcome) ==
  /\ th[t].pc = "nominatim"
  /\ LET f == [th[t] EXCEPT !.nominatim = outcome, !.sleptAt = 0, !.sentAt = 0]
     IN IF outcome.kind # "list"
        THEN th' = [th EXCEPT ![t] = [f EXCEPT !.pc = "done", !.raised = TRUE]]
        ELSE \E pick \in SamplePicks(predios_df) :
               th' = [th EXCEPT ![t] =
                        AfterGeocode(f, _convert_nominatim_to_google_format(outcome.body),
                                     predios_df, pick)]
  /\ UNCHANGED <<fn, google_api_key, use_google, predios_df, now, nominatim_window, calls>>

\* the response (or the exception) reaches the caller; the thread is free
Return(t) ==
  /\ th[t].pc = "done"
  /\ th' = [th EXCEPT ![t] = IdleFrame]
  /\ UNCHANGED <<fn, google_api_key, use_google, predios_df, now, nominatim_window, calls>>

\* a second passes; requests older than the pacing interval leave the
\* window the provider's limit is counted over
Tick ==
  /\ now < MaxTime
  /\ now' = now + 1
  /\ nominatim_window' =
       SelectSeq(nominatim_window, LAMBDA s : now' - s < PacingSeconds)
  /\ UNCHANGED <<fn, google_api_key, use_google, predios_df, calls, th>>

\* one worker thread: requests are served one at a time
Next ==
  \/ \E a \in AddressPool : geocode_address(1, a)
  \/ \E a \in QueryPool : find_predio_by_address(1, a)
  \/ \E c \in CoordPool : find_predio_by_coordinates(1, c)
  \/ \E c \in CoordPool, r \in RadiusPool : nearby_pois(1, c, r)
  \/ \E a \in AddressPool : consulta_completa(1, a)
  \/ \E o \in GoogleOutcomes : _geocode_google(1, o)
  \/ _geocode_nominatim_send(1)
  \/ \E o \in NominatimOutcomes : _geocode_nominatim_receive(1, o)
  \/ Return(1)
  \/ Tick

Spec == Init /\ [][Next]_vars

(***************************************************************************)
(* The threaded server (Flask's app.run serves each request on its own     *)
(* thread): the same operations, interleaved at their blocking points.     *)
(* The inputs are narrowed to one query, one coordinate pair and one       *)
(* outcome of each kind per provider.                                      *)
(***************************************************************************)
ThreadedQueries == { <<"A","V"," ","9">> }

ThreadedCoords == { [lat |-> 461, lng |-> -7408] }

ThreadedGoogleOutcomes ==
  { o \in GoogleOutcomes :
      o.kind = "transport_error" \/ (o.kind = "json" /\ GetResults(o.body) # <<>>) }

ThreadedNominatimOutcomes ==
  { o \in NominatimOutcomes :
      o.kind = "transport_error" \/ (o.kind = "list" /\ Len(o.body) = 0) }

InitThreaded == Init /\ NumRows(predios_df) <= 1

NextThreaded ==
  \/ \E t \in Threads, a \in ThreadedQueries : geocode_address(t, a)
  \/ \E t \in Threads, a \in ThreadedQueries : find_predio_by_address(t, a)
  \/ \E t \in Threads, c \in ThreadedCoords : find_predio_by_coordinates(t, c)
  \/ \E t \in Threads, c \in ThreadedCoords : nearby_pois(t, c, 500)
  \/ \E t \in Threads, a \in ThreadedQueries : consulta_completa(t, a)
  \/ \E t \in Threads, o \in ThreadedGoogleOutcomes : _geocode_google(t, o)
  \/ \E t \in Threads : _geocode_nominatim_send(t)
  \/ \E t \in Threads, o \in ThreadedNominatimOutcomes : _geocode_nominatim_receive(t, o)
  \/ \E t \in Threads : Return(t)
  \/ Tick

SpecThreaded == InitThreaded /\ [][NextThreaded]_vars

(***************************************************************************)
(* The helper functions applied on their own: the argument is drawn at the *)
(* start, one step computes the value.  The service itself stays idle.     *)
(***************************************************************************)
ServiceIdle ==
  /\ google_api_key = "None"
  /\ use_google = [s \in Services |-> UseGoogle(google_api_key)]
  /\ predios_df = EmptyFrame
  /\ now = 0
  /\ nominatim_window = <<>>
  /\ calls = 0
  /\ th = [t \in Threads |-> IdleFrame]

Call(name, arg) == [pc |-> "call", name |-> name, arg |-> arg, value |-> None]

Called(name) == fn.pc = "call" /\ fn.name = name

Returned(name) == fn.pc = "return" /\ fn.name = name

ReturnValue(v) ==
  /\ fn' = [fn EXCEPT !.pc = "return", !.value = v]
  /\ UNCHANGED <<google_api_key, use_google, predios_df, now,
                 nominatim_window, calls, th>>

(***************************************************************************)
(* GeocodingService: extract_location_data and the Nominatim conversion.   *)
(***************************************************************************)
\* a primary result whose components repeat a type
GoogleResultB ==
  [formatted_address |-> "Av. 9, Bogota",
   geometry |-> [location |-> [lat |-> 465, lng |-> -7410],
                 location_type |-> "RANGE_INTERPOLATED",
                 viewport |-> [northeast |-> [lat |-> 466, lng |-> -7409],
                               southwest |-> [lat |-> 464, lng |-> -7411]]],
   place_id |-> "g2",
   types |-> <<"route">>,
   address_components |->
     << [long_name |-> "Colombia", short_name |-> "CO",
         types |-> <<"country", "political">>],
        [long_name |-> "Bogota", short_name |-> "Bogota",
         types |-> <<"locality", "political">>] >>]

CanonicalPool ==
  { GoogleResult, GoogleResultB } \cup { ConvertResult(r) : r \in NominatimPool }

\* canonical responses handed to extract_location_data
CanonicalResponses ==
  { [status |-> st, results |-> rs] :
      st \in {"OK", "ZERO_RESULTS", "REQUEST_DENIED"},
      rs \in SeqsUpTo(CanonicalPool, MaxResults) }
  \cup { [error_message |-> "denied"] }

\* Nominatim result lists handed to the conversion
RawPool ==
  NominatimPool \cup
  { [lat |-> -3345, lon |-> 0, display_name |-> "", place_id |-> "n3",
     class |-> "", address |-> << <<"country", "Chile">> >>],
    [lat |-> 0, lon |-> 18000, display_name |-> "Mar", place_id |-> "n4",
     class |-> "natural"] }

RawLists == SeqsUpTo(RawPool, MaxResults)

InitGeocoder ==
  /\ ServiceIdle
  /\ \/ \E gr \in CanonicalResponses : fn = Call("extract_location_data", gr)
     \/ \E rs \in RawLists : fn = Call("_convert_nominatim_to_google_format", rs)

Apply_extract_location_data ==
  /\ Called("extract_location_data")
  /\ ReturnValue(extract_location_data(fn.arg))

Apply_convert_nominatim ==
  /\ Called("_convert_nominatim_to_google_format")
  /\ ReturnValue(_convert_nominatim_to_google_format(fn.arg))

NextGeocoder ==
  \/ Apply_extract_location_data
  \/ Apply_convert_nominatim

SpecGeocoder == InitGeocoder /\ [][NextGeocoder]_vars

(***************************************************************************)
(* CatastroService._normalize_address applied on its own: once, once more  *)
(* on its own output, and on two texts that differ in letter case only.    *)
(***************************************************************************)
NormalizerChars == {"S", "u", "r", "#", "-", " "}

\* every entry of the replacement table as a text of its own, with the
\* accented spelling of "numero" and the plain "no."
Tokens ==
  { <<"c","a","l","l","e">>,
    <<"c","a","r","r","e","r","a">>,
    <<"a","v","e","n","i","d","a">>,
    <<"d","i","a","g","o","n","a","l">>,
    <<"t","r","a","n","s","v","e","r","s","a","l">>,
    <<"s","u","r">>,
    <<"n","o","r","t","e">>,
    <<"e","s","t","e">>,
    <<"o","e","s","t","e">>,
    <<"n","o",".">>,
    <<"n","ú","m","e","r","o">>,
    <<"n","u","m","e","r","o">>,
    <<"#">>,
    <<"-">> }

Texts ==
  SeqsUpTo(NormalizerChars, MaxLen) \cup Tokens \cup
  { <<"C","a","l","l","e"," ","1","0">>,
    <<"C","A","L","L","E"," ","1","0">>,
    <<"C","a","l","l","e"," ","1","0"," ","-"," ","2","0">>,
    <<"c","#","a","l","l","e">>,
    <<"C","a","r","r","e","r","a"," ","7"," ","#"," ","4","5","-","1","0">> }

\* the two case forms of a character
CaseForms(c) ==
  {c} \cup { UpperLetters[i] : i \in { k \in DOMAIN UpperLetters : LowerLetters[k] = c } }
      \cup { LowerLetters[i] : i \in { k \in DOMAIN UpperLetters : UpperLetters[k] = c } }

\* the texts that differ from s in letter case only
RECURSIVE CaseVariants(_)
CaseVariants(s) ==
  IF s = <<>> THEN { <<>> }
  ELSE { <<c>> \o v : c \in CaseForms(Head(s)), v \in CaseVariants(Tail(s)) }

InitNormalizer ==
  /\ ServiceIdle
  /\ \/ \E x \in Texts : fn = Call("_normalize_address", x)
     \/ \E x \in Texts : \E y \in CaseVariants(x) :
          fn = Call("_normalize_address.pair", <<x, y>>)

Apply_normalize_address ==
  /\ Called("_normalize_address")
  /\ ReturnValue(_normalize_address(fn.arg))

\* the output of a call handed to the normalizer again
Apply_normalize_again ==
  /\ Returned("_normalize_address")
  /\ fn' = [pc |-> "return", name |-> "_normalize_address.again",
            arg |-> fn.value, value |-> _normalize_address(fn.value)]
  /\ UNCHANGED <<google_api_key, use_google, predios_df, now,
                 nominatim_window, calls, th>>

Apply_normalize_pair ==
  /\ Called("_normalize_address.pair")
  /\ ReturnValue(<<_normalize_address(fn.arg[1]), _normalize_address(fn.arg[2])>>)

NextNormalizer ==
  \/ Apply_normalize_address
  \/ Apply_normalize_again
  \/ Apply_normalize_pair

SpecNormalizer == InitNormalizer /\ [][NextNormalizer]_vars

(***************************************************************************)
(* CatastroService: the derived attributes, the record formatter and the   *)
(* points-of-interest lookup applied on their own.                         *)
(***************************************************************************)
Scores == (0 - MaxScore)..MaxScore

\* area cells in tenths of m2 (108.0, 175.9, none, and a negative entry)
AreaCells == {1080, 1759, 0, 0 - 50}

ScoreCells == { NaN, Num(0 - 1), Num(0), Num(29), Num(50) }

\* the records a CSV file can hold for one parcel
FormatRecords ==
  { [PRECHIP |-> "AAA1", PREDIRECC |-> <<"C","L"," ","1">>,
     PREATERRE |-> a, PREACONST |-> c, PREPUNTAJE |-> p] :
      a \in AreaCells, c \in AreaCells, p \in ScoreCells }

InitCatastro ==
  /\ ServiceIdle
  /\ \/ \E p \in Scores : fn = Call("_determinar_estrato", p)
     \/ \E p \in Scores : \E q \in Scores :
          fn = Call("_determinar_estrato.pair", <<p, q>>)
     \/ \E a \in AreaCells : \E c \in AreaCells : \E p \in Scores :
          fn = Call("_calcular_valor_catastral", <<a, c, p>>)
     \/ \E predio \in FormatRecords : fn = Call("_format_predio_info", predio)
     \/ \E coords \in CoordPool : \E radius \in RadiusPool :
          fn = Call("find_nearby_pois", <<coords.lat, coords.lng, radius>>)

Apply_determinar_estrato ==
  /\ Called("_determinar_estrato")
  /\ ReturnValue(_determinar_estrato(fn.arg))

Apply_determinar_estrato_pair ==
  /\ Called("_determinar_estrato.pair")
  /\ ReturnValue(<<_determinar_estrato(fn.arg[1]), _determinar_estrato(fn.arg[2])>>)

Apply_calcular_valor_catastral ==
  /\ Called("_calcular_valor_catastral")
  /\ ReturnValue(_calcular_valor_catastral(fn.arg[1], fn.arg[2], fn.arg[3]))

Apply_format_predio_info ==
  /\ Called("_format_predio_info")
  /\ ReturnValue(_format_predio_info(fn.arg))

Apply_find_nearby_pois ==
  /\ Called("find_nearby_pois")
  /\ ReturnValue(find_nearby_pois(fn.arg[1], fn.arg[2], fn.arg[3]))

NextCatastro ==
  \/ Apply_determinar_estrato
  \/ Apply_determinar_estrato_pair
  \/ Apply_calcular_valor_catastral
  \/ Apply_format_predio_info
  \/ Apply_find_nearby_pois

SpecCatastro == InitCatastro /\ [][NextCatastro]_vars

(***************************************************************************)
(* find_predio_by_address on queries that normalize to the empty text,     *)
(* over tables that may hold a record whose stored address does so too.    *)
(***************************************************************************)
\* "CL 1", "#" (normalizes to the empty text), and "CL 12" with no score
EmptyQueryRecords ==
  { [PRECHIP |-> "AAA1", PREDIRECC |-> <<"C","L"," ","1">>,
     PREATERRE |-> 1080, PREACONST |-> 1759, PREPUNTAJE |-> Num(50)],
    [PRECHIP |-> "AAA4", PREDIRECC |-> <<"#">>,
     PREATERRE |-> 600, PREACONST |-> 0, PREPUNTAJE |-> Num(29)],
    [PRECHIP |-> "AAA3", PREDIRECC |-> <<"C","L"," ","1","2">>,
     PREATERRE |-> 600, PREACONST |-> 0, PREPUNTAJE |-> NaN] }

\* the queries: "", " ", "#", "##" normalize to the empty text; "-" to a
\* single space; "AV 9" matches nothing
EmptyQueryPool ==
  { <<>>, <<" ">>, <<"#">>, <<"#","#">>, <<"-">>, <<"A","V"," ","9">> }

InitEmptyQuery ==
  /\ fn = NoCall
  /\ google_api_key \in {"None", "key"}
  /\ use_google = [s \in Services |-> UseGoogle(google_api_key)]
  /\ \E rows \in SeqsUpTo(EmptyQueryRecords, MaxRecords) :
       \E readable \in BOOLEAN :
         predios_df = load_data([readable |-> readable, rows |-> rows])
  /\ now = 0
  /\ nominatim_window = <<>>
  /\ calls = 0
  /\ th = [t \in Threads |-> IdleFrame]

NextEmptyQuery ==
  \/ \E a \in EmptyQueryPool : find_predio_by_address(1, a)
  \/ \E o \in GoogleOutcomes : _geocode_google(1, o)
  \/ _geocode_nominatim_send(1)
  \/ \E o \in NominatimOutcomes : _geocode_nominatim_receive(1, o)
  \/ Return(1)
  \/ Tick

SpecEmptyQuery == InitEmptyQuery /\ [][NextEmptyQuery]_vars

(***************************************************************************)
(* Properties.                                                             *)
(***************************************************************************)
\* position of the first occurrence of event e in a trace, 0 when absent
Pos(trace, e) ==
  IF \E i \in 1..Len(trace) : trace[i] = e
  THEN CHOOSE i \in 1..Len(trace) :
         trace[i] = e /\ \A j \in 1..(i - 1) : trace[j] # e
  ELSE 0

Occurs(trace, e) == Pos(trace, e) # 0

Count(trace, e) == Cardinality({ i \in 1..Len(trace) : trace[i] = e })

\* the operation of thread t has entered GeocodingService.geocode_address
Geocoding(f) == f.service # "none"

Finished(f) == f.pc = "done"

\* the primary answered with a JSON body whose status is "OK"
PrimaryOK(f) ==
  /\ f.google # None
  /\ f.google.kind = "json"
  /\ "status" \in DOMAIN f.google.body
  /\ f.google.body.status = "OK"

\* C1: with a primary key, geocode_address calls the primary first; when the
\* primary raises or answers with a status other than "OK" the fallback is
\* called next and the caller receives the fallback's converted response,
\* never the primary's failure; when the primary answers "OK" that response
\* is returned and the fallback is not called.
C1_PrimaryThenFallback ==
  \A t \in Threads :
    LET f == th[t]
    IN (Geocoding(f) /\ use_google[f.service]) =>
         /\ (Occurs(f.trace, "sleep") \/ Occurs(f.trace, "nominatim") \/ Finished(f))
              => /\ Occurs(f.trace, "google")
                 /\ Occurs(f.trace, "sleep")
                      => Pos(f.trace, "google") < Pos(f.trace, "sleep")
         /\ (Finished(f) /\ PrimaryOK(f))
              => /\ ~Occurs(f.trace, "sleep")
                 /\ ~Occurs(f.trace, "nominatim")
                 /\ ~f.raised
                 /\ f.geocode_result = f.google.body
         /\ (Finished(f) /\ ~PrimaryOK(f))
              => /\ Count(f.trace, "nominatim") = 1
                 /\ Pos(f.trace, "google") < Pos(f.trace, "nominatim")
                 /\ f.raised => f.nominatim.kind # "list"
                 /\ ~f.raised =>
                      /\ f.nominatim.kind = "list"
                      /\ f.geocode_result =
                           _convert_nominatim_to_google_format(f.nominatim.body)

\* C1 witness: the primary failed, the fallback answered, the caller got a
\* successful location from the fallback's response
C1_Witness ==
  \E t \in Threads :
    /\ Finished(th[t]) /\ th[t].op = "geocode" /\ use_google[th[t].service]
    /\ th[t].google = [kind |-> "transport_error"]
    /\ th[t].nominatim # None /\ th[t].nominatim.kind = "list"
    /\ th[t].result.success

\* C2: no public operation propagates an exception to its caller, whatever
\* the providers answer.
C2_NeverRaises ==
  \A t \in Threads : Finished(th[t]) => ~th[t].raised

\* C3: without a primary key every geocode_address call leaves the primary
\* alone and sends exactly one fallback request, after the one-second delay.
C3_NoKeyFallbackOnly ==
  google_api_key = "None" =>
    \A t \in Threads :
      LET f == th[t]
      IN Geocoding(f) =>
           /\ ~Occurs(f.trace, "google")
           /\ f.google = None
           /\ Count(f.trace, "nominatim") <= 1
           /\ Occurs(f.trace, "nominatim") =>
                /\ Pos(f.trace, "sleep") # 0
                /\ Pos(f.trace, "sleep") < Pos(f.trace, "nominatim")
           /\ f.pc = "nominatim" => f.sentAt - f.sleptAt >= SleepSeconds
           /\ Finished(f) => Count(f.trace, "nominatim") = 1

\* C3 witness: a finished geocode request served by the fallback alone
C3_Witness ==
  \E t \in Threads :
    /\ google_api_key = "None"
    /\ Finished(th[t]) /\ th[t].op = "geocode"
    /\ Count(th[t].trace, "nominatim") = 1
    /\ ~th[t].raised
    /\ th[t].result.success

\* C4: any two requests sent to the fallback provider, by whichever threads
\* and service instances, are at least one second apart.
C4_FallbackPaced ==
  \A i, j \in 1..Len(nominatim_window) :
    i < j => nominatim_window[j] - nominatim_window[i] >= PacingSeconds

\* C5: once loaded, the shared parcel table is never changed by any call:
\* same columns, same rows, same values.
C5_DatasetReadOnly == [][predios_df' = predios_df]_vars

\* every address the model's requests and records use, with its normal form
KnownAddresses ==
  { r.PREDIRECC : r \in RecordPool } \cup QueryPool \cup AddressPool

NormalForm == [a \in KnownAddresses |-> _normalize_address(a)]

\* positions of the loaded records whose normalized address equals the
\* normalized query a
ExactSet(a) ==
  { i \in 1..NumRows(predios_df) :
      NormalForm[predios_df["PREDIRECC"][i]] = NormalForm[a] }

\* positions of the loaded records whose normalized address contains the
\* normalized query a
PartialSet(a) ==
  { i \in 1..NumRows(predios_df) :
      Contains(NormalForm[predios_df["PREDIRECC"][i]], NormalForm[a]) }

Least(S) == CHOOSE i \in S : \A j \in S : i <= j

ByAddress(f) == f.op = "by_address" /\ f.pc # "idle"

\* C6: when some record's normalized address equals the normalized query,
\* find_predio_by_address answers with one of those records, even if a record
\* that merely contains the query comes earlier in the dataset.
C6_ExactBeforePartial ==
  \A t \in Threads :
    LET f == th[t]
    IN (ByAddress(f) /\ ~IsEmptyFrame(predios_df) /\ ExactSet(f.address) # {}) =>
         /\ Finished(f)
         /\ f.selected \in ExactSet(f.address)
         /\ f.result = _format_predio_info(Row(predios_df, f.selected))

\* C6 witness: the first record only contains the query, the second equals
\* it, and the second is the one selected
C6_Witness ==
  \E t \in Threads :
    /\ ByAddress(th[t]) /\ Finished(th[t])
    /\ NumRows(predios_df) = 2
    /\ 1 \in PartialSet(th[t].address) \ ExactSet(th[t].address)
    /\ 2 \in ExactSet(th[t].address)
    /\ th[t].selected = 2

\* C7: within a tier the earliest record wins: the first exact match, or,
\* when nothing matches exactly, the first record containing the query.
C7_FirstInDatasetOrder ==
  \A t \in Threads :
    LET f == th[t]
    IN (ByAddress(f) /\ ~IsEmptyFrame(predios_df)) =>
         /\ ExactSet(f.address) # {}
              => f.selected = Least(ExactSet(f.address))
         /\ (ExactSet(f.address) = {} /\ PartialSet(f.address) # {})
              => /\ Finished(f)
                 /\ f.selected = Least(PartialSet(f.address))
                 /\ f.result = _format_predio_info(Row(predios_df, f.selected))

\* C7 witness: two records equal the query and the first of them is returned
C7_Witness ==
  \E t \in Threads :
    /\ ByAddress(th[t]) /\ Finished(th[t])
    /\ ExactSet(th[t].address) = {1, 2}
    /\ th[t].selected = 1
    /\ th[t].result.success

\* the geocode response is status "OK" with a non-empty result list
UsableResponse(gr) ==
  /\ "status" \in DOMAIN gr /\ gr.status = "OK"
  /\ "results" \in DOMAIN gr /\ gr.results # <<>>

\* C8: find_predio_by_address calls the geocoder exactly when the dataset is
\* non-empty and no record matches exactly or partially, and only after the
\* matching; given the geocode response, a response that is not "OK" with
\* results yields the 'could not geocode' failure and no record is selected,
\* any other response is handed to find_nearest_predio with the first
\* result's coordinates.
C8_GeocodeLastResort ==
  \A t \in Threads :
    LET f == th[t]
    IN ByAddress(f) =>
         /\ Geocoding(f) <=> /\ ~IsEmptyFrame(predios_df)
                             /\ ExactSet(f.address) = {}
                             /\ PartialSet(f.address) = {}
         /\ Geocoding(f) =>
              /\ f.trace # <<>> /\ f.trace[1] = "normalize"
              /\ f.service = "catastro_service.geocoder"
         /\ (Geocoding(f) /\ Finished(f) /\ ~f.raised) =>
              IF UsableResponse(f.geocode_result)
              THEN /\ Occurs(f.trace, "find_nearest_predio")
                   /\ f.nearest_args =
                        f.geocode_result.results[1].geometry.location
                   /\ f.result = _format_predio_info(Row(predios_df, f.selected))
              ELSE /\ f.result = NoGeocodeResult
                   /\ f.selected = 0
                   /\ ~Occurs(f.trace, "find_nearest_predio")

\* C8 witness: no record matched, the geocoder answered, the nearest-parcel
\* lookup ran with the first result's coordinates
C8_Witness ==
  \E t \in Threads :
    /\ ByAddress(th[t]) /\ Finished(th[t]) /\ Geocoding(th[t])
    /\ ~th[t].raised
    /\ Len(th[t].geocode_result.results) = 2
    /\ Occurs(th[t].trace, "find_nearest_predio")
    /\ th[t].result.success

\* C9: with no data (load failed, or an empty table) the service exists and
\* every find_predio_by_address and find_nearest_predio call returns the
\* 'no data loaded' failure without normalizing and without geocoding.
C9_NoDataFailsFast ==
  /\ predios_df # None
  /\ IsEmptyFrame(predios_df) =>
       \A t \in Threads :
         LET f == th[t]
         IN f.op \in {"by_address", "by_coords"} =>
              /\ Finished(f)
              /\ f.result = NoDataResult
              /\ ~Occurs(f.trace, "normalize")
              /\ ~Geocoding(f)
              /\ ~Occurs(f.trace, "google") /\ ~Occurs(f.trace, "nominatim")
              /\ f.selected = 0

\* C9 witness: a second address lookup on an empty table, still refused
C9_Witness ==
  \E t \in Threads :
    /\ IsEmptyFrame(predios_df)
    /\ calls = 2
    /\ th[t].op = "by_address" /\ Finished(th[t])
    /\ th[t].result = NoDataResult

\* C10: consulta_completa geocodes, then looks the parcel up, then looks the
\* points of interest up; a geocoding that gives no location ends it with that
\* failure, a failed parcel lookup ends it with a failure before the points
\* of interest, and a success carries the geocoded coordinates.
C10_FullLookupStages ==
  \A t \in Threads :
    LET f == th[t]
        nearest == Pos(f.trace, "find_nearest_predio")
        pois == Pos(f.trace, "find_nearby_pois")
    IN (f.op = "completa" /\ Finished(f)) =>
         /\ f.raised => nearest = 0 /\ pois = 0
         /\ ~f.raised =>
              /\ Pos(f.trace, "extract") # 0
              /\ nearest # 0 => Pos(f.trace, "extract") < nearest
              /\ pois # 0 => nearest # 0 /\ nearest < pois
              /\ ~UsableResponse(f.geocode_result) =>
                   /\ nearest = 0 /\ pois = 0
                   /\ f.result = NoLocationResult
              /\ UsableResponse(f.geocode_result) =>
                   /\ nearest # 0
                   /\ f.nearest_args =
                        f.geocode_result.results[1].geometry.location
                   /\ f.predio_result =
                        IF IsEmptyFrame(predios_df) THEN NoDataResult
                        ELSE _format_predio_info(Row(predios_df, f.selected))
                   /\ ~f.predio_result.success =>
                        pois = 0 /\ ~f.result.success
                   /\ f.predio_result.success =>
                        pois # 0 /\ f.result.success
              /\ f.result.success =>
                   /\ f.result.coordenadas =
                        f.geocode_result.results[1].geometry.location
                   /\ f.result.predio = f.predio_result.predio

\* C10 witness: geocoding succeeded, the parcel lookup failed, the lookup
\* ended without asking for points of interest
C10_Witness ==
  \E t \in Threads :
    /\ th[t].op = "completa" /\ Finished(th[t]) /\ ~th[t].raised
    /\ th[t].location.success
    /\ ~th[t].predio_result.success
    /\ ~IsEmptyFrame(predios_df)
    /\ ~th[t].result.success


(***************************************************************************)
(* Helpers for the function properties.                                    *)
(***************************************************************************)
\* the component types of a canonical result
TypesOf(result) ==
  UNION { { result.address_components[k].types[j] :
              j \in 1..Len(result.address_components[k].types) } :
          k \in 1..Len(result.address_components) }

\* component k of a canonical result carries the type ty
Carries(result, k, ty) ==
  \E j \in 1..Len(result.address_components[k].types) :
    result.address_components[k].types[j] = ty

\* C11: extract_location_data returns the failure result exactly when the
\* status is not "OK" or the result list is empty; otherwise it returns
\* success with the coordinates, the formatted address and the address
\* components (per type, the long name of the last component carrying it)
\* of the first result, so that nothing of a later result shows in the output.
C11_FirstResultOnly ==
  Returned("extract_location_data") =>
    LET gr == fn.arg
        out == fn.value
        failing == \/ "status" \notin DOMAIN gr
                   \/ gr.status # "OK"
                   \/ "results" \notin DOMAIN gr
                   \/ Len(gr.results) = 0
    IN /\ out.success = ~failing
       /\ failing => /\ DOMAIN out = {"success", "error"}
                     /\ out = NoLocationResult
       /\ ~failing =>
            LET first == gr.results[1]
            IN /\ DOMAIN out = {"success", "coordinates", "formatted_address",
                                "address_components"}
               /\ out.coordinates = [lat |-> first.geometry.location.lat,
                                     lng |-> first.geometry.location.lng]
               /\ out.formatted_address = first.formatted_address
               /\ DOMAIN out.address_components = TypesOf(first)
               /\ \A ty \in TypesOf(first) :
                    \E k \in 1..Len(first.address_components) :
                      /\ Carries(first, k, ty)
                      /\ \A m \in (k + 1)..Len(first.address_components) :
                           ~Carries(first, m, ty)
                      /\ out.address_components[ty] =
                           first.address_components[k].long_name

\* a successful extraction from a list whose second result differs from the
\* first in coordinates, address and components
C11_Witness ==
  /\ Returned("extract_location_data")
  /\ fn.value.success
  /\ Len(fn.arg.results) >= 2
  /\ fn.arg.results[1] = GoogleResultB
  /\ fn.arg.results[2] = GoogleResult

\* C12: the conversion maps the empty list to status "ZERO_RESULTS" with no
\* results and no error; a non-empty list maps to status "OK" with one
\* canonical result per input result, in the same order, whose location is
\* the input's lat/lon, whose viewport corners are the location plus and
\* minus 0.01 degrees in both coordinates, and which has one address
\* component per entry of the input's address mapping, typed by its key.
C12_ConversionShape ==
  Returned("_convert_nominatim_to_google_format") =>
    LET rs == fn.arg
        out == fn.value
    IN /\ DOMAIN out = {"status", "results"}
       /\ Len(rs) = 0 => out.status = "ZERO_RESULTS" /\ out.results = <<>>
       /\ Len(rs) > 0 =>
            /\ out.status = "OK"
            /\ Len(out.results) = Len(rs)
            /\ \A i \in 1..Len(rs) :
                 LET g == out.results[i].geometry
                     comps == out.results[i].address_components
                     entries == IF "address" \in DOMAIN rs[i]
                                THEN rs[i].address ELSE <<>>
                 IN /\ g.location = [lat |-> rs[i].lat, lng |-> rs[i].lon]
                    /\ g.viewport.northeast = [lat |-> rs[i].lat + 1,
                                               lng |-> rs[i].lon + 1]
                    /\ g.viewport.southwest = [lat |-> rs[i].lat - 1,
                                               lng |-> rs[i].lon - 1]
                    /\ Len(comps) = Len(entries)
                    /\ \A k \in 1..Len(entries) :
                         /\ comps[k].types = <<entries[k][1]>>
                         /\ comps[k].long_name = entries[k][2]

\* two different places converted, the first with address entries
C12_Witness ==
  /\ Returned("_convert_nominatim_to_google_format")
  /\ Len(fn.arg) = 2
  /\ fn.arg[1].place_id = "n1"
  /\ fn.arg[2].place_id = "n4"
  /\ fn.value.status = "OK"

\* the empty list converted
C12_WitnessEmpty ==
  /\ Returned("_convert_nominatim_to_google_format")
  /\ fn.arg = <<>>
  /\ fn.value.status = "ZERO_RESULTS"

\* the replacement stated for each token: the abbreviation of a street-type
\* or cardinal word, nothing for "#", "número" and "no.", a space for "-"
StatedReplacement ==
  { <<<<"c","a","l","l","e">>, <<"c","l">>>>,
    <<<<"c","a","r","r","e","r","a">>, <<"k","r">>>>,
    <<<<"a","v","e","n","i","d","a">>, <<"a","v">>>>,
    <<<<"d","i","a","g","o","n","a","l">>, <<"d","g">>>>,
    <<<<"t","r","a","n","s","v","e","r","s","a","l">>, <<"t","v">>>>,
    <<<<"s","u","r">>, <<"s">>>>,
    <<<<"n","o","r","t","e">>, <<"n">>>>,
    <<<<"e","s","t","e">>, <<"e">>>>,
    <<<<"o","e","s","t","e">>, <<"o">>>>,
    <<<<"#">>, <<>>>>,
    <<<<"n","ú","m","e","r","o">>, <<>>>>,
    <<<<"n","o",".">>, <<>>>>,
    <<<<"-">>, <<" ">>>> }

\* two texts differ in letter case only
SameUpToCase(x, y) ==
  /\ Len(x) = Len(y)
  /\ \A i \in 1..Len(x) :
       \/ x[i] = y[i]
       \/ \E k \in DOMAIN UpperLetters :
            {x[i], y[i]} = {UpperLetters[k], LowerLetters[k]}

\* C13: normalizing the output of the normalizer gives that output again.
C13_Idempotent ==
  Returned("_normalize_address.again") => fn.value = fn.arg

\* C14: two texts that differ in letter case only have the same normal
\* form, and a text normalized twice gives the same output both times.
C14_CaseInsensitive ==
  Returned("_normalize_address.pair") =>
    (SameUpToCase(fn.arg[1], fn.arg[2]) => fn.value[1] = fn.value[2])

\* "Calle 10" against "CALLE 10"
C14_Witness ==
  /\ Returned("_normalize_address.pair")
  /\ fn.arg = <<<<"C","a","l","l","e"," ","1","0">>,
                <<"C","A","L","L","E"," ","1","0">>>>
  /\ fn.value[1] = <<"c","l"," ","1","0">>

\* C15: a text that is exactly one token of the replacement table is
\* normalized to exactly the replacement stated for that token.
C15_TokensReplaced ==
  Returned("_normalize_address") =>
    \A pair \in StatedReplacement :
      fn.arg = pair[1] => fn.value = pair[2]

\* C16: the stratum is 1 below 30, 2 for 30..44, 3 for 45..59, 4 for 60..74,
\* 5 for 75..89 and 6 from 90 on, hence within 1..6, and a larger score
\* never has a smaller stratum.
C16_StratumSteps ==
  /\ Returned("_determinar_estrato") =>
       LET p == fn.arg
           e == fn.value
       IN /\ e \in 1..6
          /\ e = 1 <=> p < 30
          /\ e = 2 <=> p \in 30..44
          /\ e = 3 <=> p \in 45..59
          /\ e = 4 <=> p \in 60..74
          /\ e = 5 <=> p \in 75..89
          /\ e = 6 <=> p >= 90
  /\ Returned("_determinar_estrato.pair") =>
       (fn.arg[1] <= fn.arg[2] => fn.value[1] <= fn.value[2])

\* score 30 is the first of stratum 2
C16_Witness ==
  /\ Returned("_determinar_estrato")
  /\ fn.arg = 30
  /\ fn.value = 2

\* scores 89 and 90 compared: strata 5 and 6
C16_WitnessPair ==
  /\ Returned("_determinar_estrato.pair")
  /\ fn.arg = <<89, 90>>
  /\ fn.value = <<5, 6>>

\* C17: the estimated value is land_area * (score * 50000) * 0.3 +
\* built_area * (score * 50000) * 0.7; with the areas a, c in tenths of m2,
\* (a/10) * (p * 50000) * (3/10) is a * (p * 500) * 3, and likewise for c.
\* For 108.0 m2, 175.9 m2 and score 50 it is 81,000,000 + 307,825,000 =
\* 388,825,000.
C17_EstimatedValue ==
  Returned("_calcular_valor_catastral") =>
    LET a == fn.arg[1]
        c == fn.arg[2]
        p == fn.arg[3]
    IN /\ fn.value = a * (p * 500) * 3 + c * (p * 500) * 7
       /\ (a = 1080 /\ c = 1759 /\ p = 50) =>
            /\ fn.value = 388825000
            /\ fn.value = 81000000 + 307825000

C17_Witness ==
  /\ Returned("_calcular_valor_catastral")
  /\ fn.arg = <<1080, 1759, 50>>
  /\ fn.value = 388825000

\* C18: a successful formatting result has non-negative areas and a
\* non-negative estimated value.
C18_NonNegativeOutputs ==
  (Returned("_format_predio_info") /\ fn.value.success) =>
    /\ fn.value.predio.area_terreno >= 0
    /\ fn.value.predio.area_construida >= 0
    /\ fn.value.predio.valor_catastral >= 0

\* C19: every point of interest returned lies within the radius (the
\* distances are in tenths of a metre, the radius in metres), and the list
\* is in ascending order of distance.
C19_WithinRadiusSorted ==
  Returned("find_nearby_pois") =>
    LET radius == fn.arg[3]
        pois == fn.value.pois
    IN /\ \A i \in 1..Len(pois) : pois[i].distancia <= radius * 10
       /\ \A i \in 1..Len(pois) : \A j \in 1..Len(pois) :
            i <= j => pois[i].distancia <= pois[j].distancia

\* the columns of the table as they were read from the file
BaseColumns(df) == [c \in Columns |-> df[c]]

\* what the very first find_predio_by_address call answers for the query a
\* on a freshly loaded table: the tier, and the position selected by the
\* exact and partial tiers
FirstCallOutcome(loaded, a) ==
  LET exact == { i \in 1..NumRows(loaded) :
                   NormalForm[loaded["PREDIRECC"][i]] = NormalForm[a] }
      partial == { i \in 1..NumRows(loaded) :
                     Contains(NormalForm[loaded["PREDIRECC"][i]], NormalForm[a]) }
  IN IF exact # {} THEN [tier |-> "exact", index |-> Least(exact)]
     ELSE IF partial # {} THEN [tier |-> "partial", index |-> Least(partial)]
     ELSE [tier |-> "geocoding", index |-> 0]

\* C20: whatever calls came before, the columns read from the file are never
\* changed, and a find_predio_by_address call is answered by the tier, and
\* for the exact and partial tiers with the record, that the first call on
\* the freshly loaded table answers with.
C20_HistoryIndependent ==
  /\ [](\A t \in Threads :
          LET f == th[t]
          IN (ByAddress(f) /\ ~IsEmptyFrame(predios_df)) =>
               \E source \in DataSources :
                 /\ source.readable
                 /\ BaseColumns(predios_df) = load_data(source)
                 /\ f.tier = FirstCallOutcome(load_data(source), f.address).tier
                 /\ f.tier \in {"exact", "partial"} =>
                      f.selected =
                        FirstCallOutcome(load_data(source), f.address).index)
  /\ [][\A c \in Columns \cap DOMAIN predios_df :
          c \in DOMAIN predios_df' /\ predios_df'[c] = predios_df[c]]_vars

\* the second call of a run is a find_predio_by_address answered by the
\* partial tier
C20_Witness ==
  \E t \in Threads :
    /\ calls = 2
    /\ ByAddress(th[t]) /\ Finished(th[t])
    /\ th[t].tier = "partial"
    /\ th[t].selected >= 1
    /\ "normalized_address" \in DOMAIN predios_df

\* positions of the loaded records whose stored address normalizes to the
\* empty text
EmptyAddressRows ==
  { i \in 1..NumRows(predios_df) :
      _normalize_address(predios_df["PREDIRECC"][i]) = <<>> }

\* C21: on a non-empty table a query that normalizes to the empty text is
\* answered at once from the table, by the exact tier with the first record
\* whose normalized address is empty when there is one, otherwise by the
\* partial tier with the first record of the table; the geocoder is never
\* entered and no provider request is made.
C21_EmptyQueryMatches ==
  \A t \in Threads :
    LET f == th[t]
    IN (/\ ByAddress(f)
        /\ ~IsEmptyFrame(predios_df)
        /\ _normalize_address(f.address) = <<>>) =>
         /\ Finished(f)
         /\ ~Geocoding(f)
         /\ ~f.raised
         /\ f.google = None /\ f.nominatim = None
         /\ \A k \in 1..Len(f.trace) :
              f.trace[k] \notin {"google", "nominatim", "sleep"}
         /\ EmptyAddressRows # {} =>
              f.tier = "exact" /\ f.selected = Least(EmptyAddressRows)
         /\ EmptyAddressRows = {} =>
              f.tier = "partial" /\ f.selected = 1
         /\ f.result = _format_predio_info(Row(predios_df, f.selected))

\* the empty query on a table without an empty address: the first record is
\* returned as a partial match
C21_Witness ==
  \E t \in Threads :
    /\ ByAddress(th[t]) /\ Finished(th[t])
    /\ th[t].address = <<>>
    /\ NumRows(predios_df) = 2
    /\ EmptyAddressRows = {}
    /\ th[t].tier = "partial"
    /\ th[t].selected = 1
    /\ th[t].result.success

\* a whitespace query on a table whose second record has an empty normalized
\* address: that record is returned as the exact match
C21_WitnessExact ==
  \E t \in Threads :
    /\ ByAddress(th[t]) /\ Finished(th[t])
    /\ th[t].address = <<" ">>
    /\ EmptyAddressRows = {2}
    /\ th[t].tier = "exact"
    /\ th[t].selected = 2
====
